---- MODULE Spec2Model ----
(***************************************************************************)
(* Game of life on three topologies (gol.py): the rectangular 8-neighbour  *)
(* Grid, the 6-neighbour HexGrid6 and the 12-neighbour HexGrid12.          *)
(*                                                                         *)
(* Cells are 'X' (alive) or '.' (dead), kept as cells[row][col] with the   *)
(* 0-based indices of the source.  Neighbour weights and scores are        *)
(* Python numbers; they are modelled as IEEE-754 binary64 values.          *)
(***************************************************************************)
EXTENDS Integers, Naturals, Sequences, FiniteSets, TLC

\* ------------------------------------------------------------------------
\* Bounds of the model
\* ------------------------------------------------------------------------
\* largest grid size constructed
MaxSize == 5
\* most cells of a grid for which every mix of 'X' and '.' is constructed
MaxMixedCells == 9
\* largest number of update() calls in a run
MaxGen == 3
\* most cells of a layout for which every mix of three symbols is loaded
MaxSymbolCells == 4
\* largest -p (print every nth generation)
MaxPrint == 2

\* ------------------------------------------------------------------------
\* Python numbers.  Weights and scores are ints and floats.  A number is a
\* record of its type and its value; a value v, 0 <= v < 16 and a multiple
\* of 2^-54, is the pair <<hi, lo>> with v = (hi * 2^27 + lo) * 2^-54 and
\* 0 <= lo < 2^27.  The ints 0..15 and the binary64 values 0.3, 2.3, 2.9,
\* 3.3 are such values, and so is every sum the program forms from them.
\* ------------------------------------------------------------------------
Limb == 134217728

PyInt(n) == [isfloat |-> FALSE, v |-> <<n * Limb, 0>>]
PyFloat(v) == [isfloat |-> TRUE, v |-> v]

\* the float literals 0.3, 2.0, 2.3, 2.9, 3.3 as binary64
F0_3 == PyFloat(<<40265318, 53687091>>)
F2_0 == PyFloat(<<268435456, 0>>)
F2_3 == PyFloat(<<308700774, 53687088>>)
F2_9 == PyFloat(<<389231411, 26843544>>)
F3_3 == PyFloat(<<442918502, 53687088>>)

\* x < y and x == y: Python compares ints and floats by value
PyLess(x, y) == x.v[1] < y.v[1] \/ (x.v[1] = y.v[1] /\ x.v[2] < y.v[2])
PyEq(x, y) == x.v = y.v

\* the exact sum and, for v >= w, difference of two values, not rounded
ExactAdd(v, w) ==
    LET lo == v[2] + w[2]
    IN  <<v[1] + w[1] + (lo \div Limb), lo % Limb>>
ExactSub(v, w) ==
    IF v[2] >= w[2] THEN <<v[1] - w[1], v[2] - w[2]>>
    ELSE <<v[1] - w[1] - 1, v[2] + Limb - w[2]>>

\* the spacing of binary64 values around v, in units of 2^-54
Ulp(v) ==
    IF v[1] < 67108864 THEN 1
    ELSE IF v[1] < 134217728 THEN 2
    ELSE IF v[1] < 268435456 THEN 4
    ELSE IF v[1] < 536870912 THEN 8
    ELSE IF v[1] < 1073741824 THEN 16
    ELSE 32

\* round an exact value to binary64, to nearest, ties to even
RoundNearestEven(v) ==
    LET u == Ulp(v)
        q == v[2] % u
        down == v[2] - q
        odd == (v[2] \div u) % 2 = 1
        up == 2 * q > u \/ (2 * q = u /\ odd)
    IN  IF ~up THEN <<v[1], down>>
        ELSE IF down + u = Limb THEN <<v[1] + 1, 0>>
        ELSE <<v[1], down + u>>

\* x + y: an int when both are, else a float, rounded (small ints are exact)
PyAdd(x, y) ==
    [isfloat |-> x.isfloat \/ y.isfloat,
     v |-> RoundNearestEven(ExactAdd(x.v, y.v))]

\* b * w for the int b, 0 or 1
PyMul01(b, w) == [isfloat |-> w.isfloat, v |-> IF b = 0 THEN <<0, 0>> ELSE w.v]

\* ------------------------------------------------------------------------
\* The state
\* ------------------------------------------------------------------------
VARIABLES
    grid_type,  \* the class gridBuilder chose: 8 Grid, 6 HexGrid6, 12 HexGrid12
    arg,        \* the constructor's argument: (size, prob) or the file read
    size,       \* self.size
    cells,      \* self.cells, cells[row][col]
    initial,    \* self.cells as the constructor left it
    gen,        \* number of update() calls made so far
    sum_impl,   \* how the interpreter's sum() adds floats
    pc,         \* "main": the generation loop; "call"/"return": one call
    cell,       \* the coordinate handed to getNeighbors
    ret,        \* the list getNeighbors returned
    cell_val,   \* the cell value handed to live
    nvals,      \* the states and weights of that cell's neighbours, in order
    score,      \* the neighbour score of line 69
    verdict,    \* what live returned
    opts,       \* args of main: gens, gen_print, ncurses
    out         \* what main has written to the terminal so far, in order

vars == <<grid_type, arg, size, cells, initial, gen, sum_impl, pc,
          cell, ret, cell_val, nvals, score, verdict, opts, out>>

GridTypes == {8, 6, 12}

\* CPython's sum() adds floats one rounded addition at a time up to 3.11 and
\* with Neumaier compensation from 3.12 on; the source does not say which
\* interpreter runs it.
SumImpls == {"naive", "compensated"}

\* ------------------------------------------------------------------------
\* Cell
\* ------------------------------------------------------------------------
Cell(coordinate, weight) == [coordinate |-> coordinate, weight |-> weight]

\* v in coordinate, on a tuple of two
InTuple(v, coordinate) == coordinate[1] = v \/ coordinate[2] = v

\* ------------------------------------------------------------------------
\* Neighbour offsets
\* ------------------------------------------------------------------------
\* [(r,c) for r in range(-1,2) for c in range(-1,2) if (r,c) != (0,0)]
Grid_neighbors_offset ==
    <<<<-1, -1>>, <<-1, 0>>, <<-1, 1>>, <<0, -1>>, <<0, 1>>,
      <<1, -1>>, <<1, 0>>, <<1, 1>>>>

HexGrid6_common_neighbors_offset == <<<<-1, 0>>, <<0, -1>>, <<0, 1>>, <<1, 0>>>>

\* the table of the even rows for every row
HexGrid6_neighbors_offset_even_only(odd) ==
    HexGrid6_common_neighbors_offset \o <<<<-1, -1>>, <<1, -1>>>>

\* indexed by row % 2 == 1: FALSE is an even row, TRUE an odd row
HexGrid6_neighbors_offset(odd) ==
    IF ~odd THEN HexGrid6_common_neighbors_offset \o <<<<-1, -1>>, <<1, -1>>>>
    ELSE HexGrid6_common_neighbors_offset \o <<<<-1, 1>>, <<1, 1>>>>

HexGrid12_common_neighbors_offset == <<<<-2, 0>>, <<2, 0>>>>

HexGrid12_neighbors_offset(odd) ==
    IF ~odd
    THEN HexGrid12_common_neighbors_offset
             \o <<<<-1, -2>>, <<-1, 1>>, <<1, 1>>, <<1, -2>>>>
    ELSE HexGrid12_common_neighbors_offset
             \o <<<<-1, 2>>, <<-1, -1>>, <<1, -1>>, <<1, 2>>>>

\* ------------------------------------------------------------------------
\* getNeighbors
\* ------------------------------------------------------------------------
\* the test without its upper bound, and with its lower bound off by one
OutOfRange_no_upper(sz, coordinate) == InTuple(-1, coordinate)
OutOfRange_from_zero(sz, coordinate) == InTuple(0, coordinate) \/ InTuple(sz, coordinate)

\* the test of lines 53 and 93 that skips a coordinate
OutOfRange(sz, coordinate) == InTuple(-1, coordinate) \/ InTuple(sz, coordinate)

\* the test of line 114 as a copy of the test of line 93
OutOfRange12_one_step(sz, coordinate) ==
    InTuple(-1, coordinate) \/ InTuple(sz, coordinate)

\* the test of line 114
OutOfRange12(sz, coordinate) ==
    \/ InTuple(-1, coordinate) \/ InTuple(-2, coordinate)
    \/ InTuple(sz, coordinate) \/ InTuple(sz + 1, coordinate)

\* the loop of lines 51-55 and 91-95 from offset number i on
RECURSIVE NeighborsLoop(_, _, _, _, _)
NeighborsLoop(offsets, i, sz, c, acc) ==
    IF i > Len(offsets) THEN acc
    ELSE LET coordinate == <<c[1] + offsets[i][1], c[2] + offsets[i][2]>>
         IN  IF OutOfRange(sz, coordinate)
             THEN NeighborsLoop(offsets, i + 1, sz, c, acc)
             ELSE NeighborsLoop(offsets, i + 1, sz, c,
                                Append(acc, Cell(coordinate, PyInt(1))))

\* the loop of lines 112-116 from offset number i on
RECURSIVE NeighborsLoop12(_, _, _, _, _)
NeighborsLoop12(offsets, i, sz, c, acc) ==
    IF i > Len(offsets) THEN acc
    ELSE LET coordinate == <<c[1] + offsets[i][1], c[2] + offsets[i][2]>>
         IN  IF OutOfRange12(sz, coordinate)
             THEN NeighborsLoop12(offsets, i + 1, sz, c, acc)
             ELSE NeighborsLoop12(offsets, i + 1, sz, c,
                                  Append(acc, Cell(coordinate, F0_3)))

Grid_getNeighbors(sz, c) == NeighborsLoop(Grid_neighbors_offset, 1, sz, c, <<>>)

HexGrid6_getNeighbors(sz, c) ==
    NeighborsLoop(HexGrid6_neighbors_offset(c[1] % 2 = 1), 1, sz, c, <<>>)

\* HexGrid12.getNeighbors with weight 1 for the offsets (-2,0) and (2,0)
HexGrid12_getNeighbors_far1(sz, c) ==
    LET n == NeighborsLoop12(HexGrid12_neighbors_offset(c[1] % 2 = 1), 1, sz, c, <<>>)
        far(i) == n[i].coordinate \in {<<c[1] - 2, c[2]>>, <<c[1] + 2, c[2]>>}
    IN  HexGrid6_getNeighbors(sz, c)
            \o [i \in 1 .. Len(n) |->
                    IF far(i) THEN Cell(n[i].coordinate, PyFloat(PyInt(1).v))
                    ELSE n[i]]

HexGrid12_getNeighbors(sz, c) ==
    NeighborsLoop12(HexGrid12_neighbors_offset(c[1] % 2 = 1), 1, sz, c,
                    HexGrid6_getNeighbors(sz, c))

\* self.getNeighbors, by the class of self
getNeighbors(type, sz, c) ==
    IF type = 8 THEN Grid_getNeighbors(sz, c)
    ELSE IF type = 6 THEN HexGrid6_getNeighbors(sz, c)
    ELSE HexGrid12_getNeighbors(sz, c)

\* ------------------------------------------------------------------------
\* The score and the rule
\* ------------------------------------------------------------------------
\* one term of line 69, for a neighbour given as <<state, weight>>
Term(nv) == PyMul01(IF nv[1] = "." THEN 0 ELSE 1, nv[2])

\* sum() up to CPython 3.11: start at the int 0 and add term after term
RECURSIVE SumNaive(_, _, _)
SumNaive(nv, i, acc) ==
    IF i > Len(nv) THEN acc ELSE SumNaive(nv, i + 1, PyAdd(acc, Term(nv[i])))

\* sum() from CPython 3.12 on, once the running result f is a float: a float
\* term is added with Neumaier compensation, an int term without.  t is
\* f plus the compensation, which is exact for these few terms; the result
\* is f + compensation, rounded.
RECURSIVE SumFloatLoop(_, _, _, _)
SumFloatLoop(nv, i, f, t) ==
    IF i > Len(nv) THEN PyFloat(RoundNearestEven(t))
    ELSE LET x == Term(nv[i])
             f2 == RoundNearestEven(ExactAdd(f, x.v))
         IN  IF x.isfloat
             THEN SumFloatLoop(nv, i + 1, f2, ExactAdd(t, x.v))
             ELSE SumFloatLoop(nv, i + 1, f2, ExactSub(ExactAdd(t, f2), f))

\* sum() from CPython 3.12 on: ints are added as ints; the first float term
\* is added by a plain +, and the float loop takes over
RECURSIVE SumCompensated(_, _, _)
SumCompensated(nv, i, acc) ==
    IF i > Len(nv) THEN acc
    ELSE LET x == Term(nv[i])
         IN  IF ~x.isfloat THEN SumCompensated(nv, i + 1, PyAdd(acc, x))
             ELSE LET f == PyAdd(acc, x).v
                  IN  SumFloatLoop(nv, i + 1, f, f)

\* sum([...]) of line 69
Sum(impl, nv) ==
    IF impl = "naive" THEN SumNaive(nv, 1, PyInt(0))
    ELSE SumCompensated(nv, 1, PyInt(0))

\* Grid.live with a dead cell born at a score up to 3, and with an alive
\* cell surviving at a score of 2 only
Grid_live_born_upto3(val, neighbor_score) ==
    \/ val = "X" /\ (PyEq(neighbor_score, PyInt(2)) \/ PyEq(neighbor_score, PyInt(3)))
    \/ val = "." /\ ~PyLess(PyInt(3), neighbor_score)
Grid_live_survive2(val, neighbor_score) ==
    \/ val = "X" /\ PyEq(neighbor_score, PyInt(2))
    \/ val = "." /\ PyEq(neighbor_score, PyInt(3))

\* Grid.live
Grid_live(val, neighbor_score) ==
    \/ val = "X" /\ (PyEq(neighbor_score, PyInt(2)) \/ PyEq(neighbor_score, PyInt(3)))
    \/ val = "." /\ PyEq(neighbor_score, PyInt(3))

\* HexGrid12.live
HexGrid12_live(val, neighbor_score) ==
    \/ val = "X" /\ PyLess(F2_0, neighbor_score) /\ PyLess(neighbor_score, F3_3)
    \/ val = "." /\ PyLess(F2_3, neighbor_score) /\ PyLess(neighbor_score, F2_9)

\* self.live, by the class of self
live(type, val, neighbor_score) ==
    IF type = 12 THEN HexGrid12_live(val, neighbor_score)
    ELSE Grid_live(val, neighbor_score)

\* ------------------------------------------------------------------------
\* Grid.__init__
\* ------------------------------------------------------------------------
\* range(0, n)
Range(n) == 0 .. (n - 1)

\* list(seq): the 0-indexed list of the items of a sequence
List(seq) == [i \in Range(Len(seq)) |-> seq[i + 1]]

\* random.random(), in hundredths: a value of [0, 1)
RandomDraws == {0, 50, 99}

\* 'X' if random.random() < prob else '.', for every draw; prob in hundredths
CellDraws(prob) == {IF r < prob THEN "X" ELSE "." : r \in RandomDraws}

\* line 31: the grids a random construction can return
RandomCells(sz, prob) == [Range(sz) -> [Range(sz) -> CellDraws(prob)]]

Whitespace == {" ", "\t", "\n", "\r"}

\* l.strip()
RECURSIVE LStrip(_)
LStrip(l) ==
    IF l # <<>> /\ Head(l) \in Whitespace THEN LStrip(Tail(l)) ELSE l
RECURSIVE RStrip(_)
RStrip(l) ==
    IF l # <<>> /\ l[Len(l)] \in Whitespace
    THEN RStrip(SubSeq(l, 1, Len(l) - 1)) ELSE l
\* l.lstrip() in the place of l.strip()
Strip_left_only(l) == LStrip(l)
Strip(l) == RStrip(LStrip(l))

\* line 36: [list(l.strip()) for l in lines]
FileCells(lines) == List([i \in 1 .. Len(lines) |-> List(Strip(lines[i]))])

\* self.cells and self.size as the constructor leaves them
CellsOf(a, cs) ==
    IF a.src = "random" THEN cs \in RandomCells(a.size, a.prob)
    ELSE cs = FileCells(a.lines)
SizeOf(a, cs) == IF a.src = "random" THEN a.size ELSE Len(a.lines)

\* ------------------------------------------------------------------------
\* Grid.__getitem__ and Grid.update
\* ------------------------------------------------------------------------
\* self[key] for a tuple key
GetItem(cs, key) == cs[key[1]][key[2]]

\* the states and weights of the neighbours, as line 69 reads them from cs
NeighborVals(cs, neighbors) ==
    [i \in 1 .. Len(neighbors) |->
        <<GetItem(cs, neighbors[i].coordinate), neighbors[i].weight>>]

\* lines 63-71 for one cell: does it live in the next generation
NextLive(impl, type, sz, cs, c) ==
    live(type, GetItem(cs, c),
         Sum(impl, NeighborVals(cs, getNeighbors(type, sz, c))))

\* 'True' if live else 'False' in the place of line 72
NewCellValue_as_bool(is_live) == IF is_live THEN "True" ELSE "False"

\* line 72: 'X' if live else '.'
NewCellValue(is_live) == IF is_live THEN "X" ELSE "."

\* the loops of lines 61-72 from cell number k on, in row-major order:
\* scores are read from cs, results are written to new_cells
RECURSIVE UpdateLoop(_, _, _, _, _, _)
UpdateLoop(impl, type, sz, cs, new_cells, k) ==
    IF k >= sz * sz THEN new_cells
    ELSE LET row == k \div sz
             col == k % sz
             val == NewCellValue(NextLive(impl, type, sz, cs, <<row, col>>))
         IN  UpdateLoop(impl, type, sz, cs,
                        [new_cells EXCEPT ![row][col] = val], k + 1)

\* the loops with new_cells an alias of self.cells (no deepcopy)
RECURSIVE UpdateLoopAliased(_, _, _, _, _)
UpdateLoopAliased(impl, type, sz, cs, k) ==
    IF k >= sz * sz THEN cs
    ELSE LET row == k \div sz
             col == k % sz
             val == NewCellValue(NextLive(impl, type, sz, cs, <<row, col>>))
         IN  UpdateLoopAliased(impl, type, sz,
                               [cs EXCEPT ![row][col] = val], k + 1)

Grid_update_aliased(impl, type, sz, cs) == UpdateLoopAliased(impl, type, sz, cs, 0)

\* Grid.update: the value of self.cells after the call
Grid_update(impl, type, sz, cs) == UpdateLoop(impl, type, sz, cs, cs, 0)

\* ------------------------------------------------------------------------
\* Grid.__repr__
\* ------------------------------------------------------------------------
\* sep.join(strs) from string number i on; a string is a sequence of characters
RECURSIVE Join(_, _, _)
Join(strs, sep, i) ==
    IF i > Len(strs) THEN <<>>
    ELSE IF i = Len(strs) THEN strs[i]
    ELSE strs[i] \o sep \o Join(strs, sep, i + 1)

\* Grid.__repr__
Grid_repr(sz, cs) ==
    Join([r \in 1 .. sz |-> Join([i \in 1 .. Cardinality(DOMAIN cs[r - 1]) |->
                                     <<cs[r - 1][i - 1]>>], <<>>, 1)],
         <<"\n">>, 1)

\* HexGrid6.__repr__ with the offset on the even rows
HexGrid6_repr_even_offset(sz, cs) ==
    Join([r \in 1 .. sz |->
             (IF (r - 1) % 2 = 0 THEN <<" ">> ELSE <<>>)
             \o Join([i \in 1 .. Cardinality(DOMAIN cs[r - 1]) |->
                         <<cs[r - 1][i - 1]>>], <<" ">>, 1)],
         <<"\n">>, 1)

\* HexGrid6.__repr__, inherited by HexGrid12: offsets, rows, and the join of
\* the zipped pairs
HexGrid6_repr(sz, cs) ==
    LET offsets == [idx \in 1 .. sz |->
                       IF (idx - 1) % 2 = 0 THEN <<>> ELSE <<" ">>]
        rows == [r \in 1 .. sz |->
                    Join([i \in 1 .. Cardinality(DOMAIN cs[r - 1]) |->
                             <<cs[r - 1][i - 1]>>], <<" ">>, 1)]
    IN  Join([k \in 1 .. sz |-> offsets[k] \o rows[k]], <<"\n">>, 1)

\* repr(grid) of the class gridBuilder chose
repr(type, sz, cs) ==
    IF type = 8 THEN Grid_repr(sz, cs) ELSE HexGrid6_repr(sz, cs)

\* ------------------------------------------------------------------------
\* Inputs
\* ------------------------------------------------------------------------
\* -i, in hundredths
Probs == {0, 50, 100}

\* (size, prob) of line 158
RandomArgs ==
    {a \in [src : {"random"}, size : 1 .. MaxSize, prob : Probs] :
        a.prob \in {0, 100} \/ a.size * a.size <= MaxMixedCells}

\* the lines of a layout file of sz rows, 'X' at the coordinates of alive
LayoutLines(sz, alive) ==
    [r \in 1 .. sz |->
        [c \in 1 .. (sz + 1) |->
            IF c = sz + 1 THEN "\n"
            ELSE IF <<r - 1, c - 1>> \in alive THEN "X" ELSE "."]]

\* a 2x2 block with its upper left cell at (r, c); a line of three cells
\* with its centre at (r, c)
BlockAt(r, c) == {<<r, c>>, <<r, c + 1>>, <<r + 1, c>>, <<r + 1, c + 1>>}
RowOf3At(r, c) == {<<r, c - 1>>, <<r, c>>, <<r, c + 1>>}
ColOf3At(r, c) == {<<r - 1, c>>, <<r, c>>, <<r + 1, c>>}

\* layout files: a block anywhere, a line of three anywhere
LayoutFiles ==
    {LayoutLines(s, BlockAt(r, c)) :
        <<s, r, c>> \in {t \in (2 .. MaxSize) \X Range(MaxSize) \X Range(MaxSize) :
                            t[2] <= t[1] - 2 /\ t[3] <= t[1] - 2}}
    \cup
    {LayoutLines(s, RowOf3At(r, c)) :
        <<s, r, c>> \in {t \in (3 .. MaxSize) \X Range(MaxSize) \X Range(MaxSize) :
                            t[2] <= t[1] - 1 /\ 1 <= t[3] /\ t[3] <= t[1] - 2}}
    \cup
    {LayoutLines(s, ColOf3At(r, c)) :
        <<s, r, c>> \in {t \in (3 .. MaxSize) \X Range(MaxSize) \X Range(MaxSize) :
                            t[3] <= t[1] - 1 /\ 1 <= t[2] /\ t[2] <= t[1] - 2}}

\* the file name of line 157, as the lines read from it
FileArgs == {[src |-> "file", lines |-> l] : l \in LayoutFiles}

\* ------------------------------------------------------------------------
\* The generation loop: a grid is built and updated gen by gen
\* ------------------------------------------------------------------------
\* nothing written yet, -g as many generations as the model follows
NoOutput ==
    /\ opts = [gens |-> MaxGen, gen_print |-> 1, ncurses |-> FALSE]
    /\ out = <<>>

Idle ==
    /\ NoOutput
    /\ cell = <<0, 0>>
    /\ ret = <<>>
    /\ cell_val = "."
    /\ nvals = <<>>
    /\ score = PyInt(0)
    /\ verdict = FALSE

Init ==
    /\ grid_type \in GridTypes
    /\ sum_impl \in SumImpls
    /\ arg \in RandomArgs \cup FileArgs
    /\ CellsOf(arg, cells)
    /\ size = SizeOf(arg, cells)
    /\ initial = cells
    /\ gen = 0
    /\ pc = "main"
    /\ Idle

\* grid.update() of line 175
Update ==
    /\ pc = "main"
    /\ gen < MaxGen
    /\ cells' = Grid_update(sum_impl, grid_type, size, cells)
    /\ gen' = gen + 1
    /\ UNCHANGED <<grid_type, arg, size, initial, sum_impl, pc,
                   cell, ret, cell_val, nvals, score, verdict, opts, out>>

Next == Update

Spec == Init /\ [][Next]_vars

\* ------------------------------------------------------------------------
\* One call of getNeighbors on a grid of every size, for every coordinate
\* ------------------------------------------------------------------------
Coordinates(sz) == Range(sz) \X Range(sz)

InitNeighbors ==
    /\ grid_type \in GridTypes
    /\ sum_impl \in SumImpls
    /\ arg \in {a \in RandomArgs : a.prob = 0}
    /\ CellsOf(arg, cells)
    /\ size = SizeOf(arg, cells)
    /\ initial = cells
    /\ gen = 0
    /\ pc = "call"
    /\ NoOutput
    /\ cell \in Coordinates(size)
    /\ ret = <<>>
    /\ cell_val = "."
    /\ nvals = <<>>
    /\ score = PyInt(0)
    /\ verdict = FALSE

\* neighbors = self.getNeighbors(cell) of line 67
CallGetNeighbors ==
    /\ pc = "call"
    /\ ret' = getNeighbors(grid_type, size, cell)
    /\ pc' = "return"
    /\ UNCHANGED <<grid_type, arg, size, cells, initial, gen, sum_impl,
                   cell, cell_val, nvals, score, verdict, opts, out>>

NextNeighbors == CallGetNeighbors

SpecNeighbors == InitNeighbors /\ [][NextNeighbors]_vars

\* ------------------------------------------------------------------------
\* Lines 63-71 for one cell that has all its neighbours, in a grid loaded
\* from a layout: every state of the cell and of each of its neighbours
\* ------------------------------------------------------------------------
RuleCell == <<2, 2>>

\* the cell and its neighbours
Neighborhood(type) ==
    LET n == getNeighbors(type, MaxSize, RuleCell)
    IN  {RuleCell} \cup {n[i].coordinate : i \in 1 .. Len(n)}

InitRule ==
    /\ grid_type \in GridTypes
    /\ sum_impl \in SumImpls
    /\ arg \in {[src |-> "file", lines |-> LayoutLines(MaxSize, alive)] :
                    alive \in SUBSET Neighborhood(grid_type)}
    /\ CellsOf(arg, cells)
    /\ size = SizeOf(arg, cells)
    /\ initial = cells
    /\ gen = 0
    /\ pc = "call"
    /\ NoOutput
    /\ cell = RuleCell
    /\ ret = <<>>
    /\ cell_val = "."
    /\ nvals = <<>>
    /\ score = PyInt(0)
    /\ verdict = FALSE

\* neighbors = self.getNeighbors(cell); score = sum(...);
\* live = self.live(self[cell], score)
CallLive ==
    /\ pc = "call"
    /\ ret' = getNeighbors(grid_type, size, cell)
    /\ nvals' = NeighborVals(cells, ret')
    /\ cell_val' = GetItem(cells, cell)
    /\ score' = Sum(sum_impl, nvals')
    /\ verdict' = live(grid_type, cell_val', score')
    /\ pc' = "return"
    /\ UNCHANGED <<grid_type, arg, size, cells, initial, gen, sum_impl, cell,
                   opts, out>>

NextRule == CallLive

SpecRule == InitRule /\ [][NextRule]_vars

\* ------------------------------------------------------------------------
\* Layouts that hold a symbol other than 'X' and '.', loaded and updated
\* ------------------------------------------------------------------------
Symbols == {"X", ".", "O"}

\* the lines of a layout file of sz rows with the symbol f[<<r, c>>] at (r, c)
SymbolLines(sz, f) ==
    [r \in 1 .. sz |->
        [c \in 1 .. (sz + 1) |->
            IF c = sz + 1 THEN "\n" ELSE f[<<r - 1, c - 1>>]]]

SymbolLayouts ==
    UNION {{SymbolLines(s, f) : f \in [Coordinates(s) -> Symbols]} :
              s \in {n \in 1 .. MaxSize : n * n <= MaxSymbolCells}}

InitSymbols ==
    /\ grid_type \in GridTypes
    /\ sum_impl \in SumImpls
    /\ arg \in {[src |-> "file", lines |-> l] : l \in SymbolLayouts}
    /\ CellsOf(arg, cells)
    /\ size = SizeOf(arg, cells)
    /\ initial = cells
    /\ gen = 0
    /\ pc = "main"
    /\ Idle

SpecSymbols == InitSymbols /\ [][Next]_vars

\* ------------------------------------------------------------------------
\* One rendering of a grid as the constructor left it
\* ------------------------------------------------------------------------
\* the same file without the newline that ends its last line
NoFinalNewline(lines) ==
    [lines EXCEPT ![Len(lines)] = SubSeq(@, 1, Len(@) - 1)]

ReprFiles ==
    LayoutFiles \cup SymbolLayouts
    \cup {NoFinalNewline(l) : l \in SymbolLayouts}

InitRepr ==
    /\ grid_type \in GridTypes
    /\ sum_impl \in SumImpls
    /\ arg \in RandomArgs \cup {[src |-> "file", lines |-> l] : l \in ReprFiles}
    /\ CellsOf(arg, cells)
    /\ size = SizeOf(arg, cells)
    /\ initial = cells
    /\ gen = 0
    /\ pc = "call"
    /\ Idle

\* print(grid) of line 172: str(grid) is written, the grid is only read
CallRepr ==
    /\ pc = "call"
    /\ out' = Append(out, repr(grid_type, size, cells))
    /\ pc' = "return"
    /\ UNCHANGED <<grid_type, arg, size, cells, initial, gen, sum_impl,
                   cell, ret, cell_val, nvals, score, verdict, opts>>

NextRepr == CallRepr

SpecRepr == InitRepr /\ [][NextRepr]_vars

\* ------------------------------------------------------------------------
\* Grid.__init__ called with every (size, prob), those out of range included
\* ------------------------------------------------------------------------
\* -size below, at and above zero; -i below 0, in [0, 1] and above 1
AnySizes == -1 .. MaxSize
AnyProbs == {-50, 150} \cup Probs

AnyRandomArgs ==
    {a \in [src : {"random"}, size : AnySizes, prob : AnyProbs] :
        a.prob # 50 \/ a.size * a.size <= MaxMixedCells}

\* before the constructor runs: line 27, self.cells = None
InitConstruct ==
    /\ grid_type \in GridTypes
    /\ sum_impl \in SumImpls
    /\ arg \in AnyRandomArgs \cup FileArgs
    /\ cells = <<>>
    /\ size = 0
    /\ initial = <<>>
    /\ gen = 0
    /\ pc = "build"
    /\ Idle

\* Grid.__init__: no statement of it raises for a (size, prob) tuple, and
\* the constructor returns the grid to main
Construct ==
    /\ pc = "build"
    /\ CellsOf(arg, cells')
    /\ size' = SizeOf(arg, cells')
    /\ initial' = cells'
    /\ pc' = "main"
    /\ UNCHANGED <<grid_type, arg, gen, sum_impl,
                   cell, ret, cell_val, nvals, score, verdict, opts, out>>

NextConstruct == Construct

SpecConstruct == InitConstruct /\ [][NextConstruct]_vars

\* ------------------------------------------------------------------------
\* main: the two output modes, for every -g and -p
\* ------------------------------------------------------------------------
DecimalDigits == <<"0", "1", "2", "3", "4", "5", "6", "7", "8", "9">>

\* '%d' % n for n >= 0
RECURSIVE FormatD(_)
FormatD(n) ==
    IF n < 10 THEN <<DecimalDigits[n + 1]>>
    ELSE FormatD(n \div 10) \o <<DecimalDigits[(n % 10) + 1]>>

\* 'Gen %d' % n of line 174 and 'Gen%d' % n of line 163
PlainLabel(n) == <<"G", "e", "n", " ">> \o FormatD(n)
CursesLabel(n) == <<"G", "e", "n">> \o FormatD(n)

\* -g, -p and -nc
MainOpts == [gens : 0 .. MaxGen, gen_print : 1 .. MaxPrint, ncurses : BOOLEAN]

MainArgs ==
    {a \in RandomArgs : a.prob # 50 \/ a.size * a.size <= MaxSymbolCells}

InitMain ==
    /\ grid_type \in GridTypes
    /\ sum_impl \in SumImpls
    /\ arg \in MainArgs
    /\ CellsOf(arg, cells)
    /\ size = SizeOf(arg, cells)
    /\ initial = cells
    /\ gen = 0
    /\ pc = "start"
    /\ opts \in MainOpts
    /\ out = <<>>
    /\ cell = <<0, 0>>
    /\ ret = <<>>
    /\ cell_val = "."
    /\ nvals = <<>>
    /\ score = PyInt(0)
    /\ verdict = FALSE

\* line 172: print(grid)
PrintInitial ==
    /\ pc = "start"
    /\ ~opts.ncurses
    /\ out' = Append(out, repr(grid_type, size, cells))
    /\ pc' = "loop"
    /\ UNCHANGED <<grid_type, arg, size, cells, initial, gen, sum_impl,
                   cell, ret, cell_val, nvals, score, verdict, opts>>

\* lines 173-177, one iteration: the loop variable is gen + 1
PlainGeneration ==
    /\ pc = "loop"
    /\ gen + 1 \in 1 .. opts.gens
    /\ cells' = Grid_update(sum_impl, grid_type, size, cells)
    /\ gen' = gen + 1
    /\ out' = out \o <<PlainLabel(gen + 1)>>
                  \o (IF (gen + 1) % opts.gen_print = 0
                      THEN <<repr(grid_type, size, cells')>> ELSE <<>>)
    /\ UNCHANGED <<grid_type, arg, size, initial, sum_impl, pc,
                   cell, ret, cell_val, nvals, score, verdict, opts>>

\* lines 173, 178: range(1, args.gens + 1) is exhausted, main returns
PlainReturn ==
    /\ pc = "loop"
    /\ gen + 1 \notin 1 .. opts.gens
    /\ pc' = "done"
    /\ UNCHANGED <<grid_type, arg, size, cells, initial, gen, sum_impl,
                   cell, ret, cell_val, nvals, score, verdict, opts, out>>

\* lines 169-170, 161: curses.wrapper calls main_curses
EnterCurses ==
    /\ pc = "start"
    /\ opts.ncurses
    /\ pc' = "curses"
    /\ UNCHANGED <<grid_type, arg, size, cells, initial, gen, sum_impl,
                   cell, ret, cell_val, nvals, score, verdict, opts, out>>

\* lines 162-167, one iteration: the loop variable is gen
CursesGeneration ==
    /\ pc = "curses"
    /\ gen \in 0 .. opts.gens
    /\ out' = out \o <<CursesLabel(gen), repr(grid_type, size, cells)>>
    /\ cells' = Grid_update(sum_impl, grid_type, size, cells)
    /\ gen' = gen + 1
    /\ UNCHANGED <<grid_type, arg, size, initial, sum_impl, pc,
                   cell, ret, cell_val, nvals, score, verdict, opts>>

\* lines 162, 178: range(0, args.gens + 1) is exhausted, main returns
CursesReturn ==
    /\ pc = "curses"
    /\ gen \notin 0 .. opts.gens
    /\ pc' = "done"
    /\ UNCHANGED <<grid_type, arg, size, cells, initial, gen, sum_impl,
                   cell, ret, cell_val, nvals, score, verdict, opts, out>>

NextMain ==
    \/ PrintInitial
    \/ PlainGeneration
    \/ PlainReturn
    \/ EnterCurses
    \/ CursesGeneration
    \/ CursesReturn

SpecMain == InitMain /\ [][NextMain]_vars

\* ------------------------------------------------------------------------
\* Properties
\* ------------------------------------------------------------------------
AliveSet(cs) == {c \in Coordinates(size) : GetItem(cs, c) = "X"}
AllDead(cs) == \A c \in Coordinates(size) : GetItem(cs, c) = "."
WellFormed(cs) == \A c \in Coordinates(size) : GetItem(cs, c) \in {"X", "."}

\* the score of cell c in the grid cs: the weights of its alive neighbours
OldScore(cs, c) ==
    LET n == getNeighbors(grid_type, size, c)
    IN  Sum(sum_impl,
            [i \in 1 .. Len(n) |->
                <<IF GetItem(cs, n[i].coordinate) = "X" THEN "X" ELSE ".",
                  n[i].weight>>])

\* C1: one update() makes each cell alive iff the rule of the topology accepts
\* the cell's old state and the weighted count of its neighbours alive in the
\* old grid; nothing written for the new generation is read.
C1_UpdateReadsOldGeneration ==
    [][(gen' = gen + 1 /\ WellFormed(cells)) =>
          \A c \in Coordinates(size) :
              /\ GetItem(cells', c) \in {"X", "."}
              /\ ((GetItem(cells', c) = "X")
                    <=> live(grid_type, GetItem(cells, c), OldScore(cells, c)))]_vars

\* a first update whose result differs from what updating in place gives
C1_Witness ==
    /\ gen = 1
    /\ cells # initial
    /\ cells # Grid_update_aliased(sum_impl, grid_type, size, initial)

\* number of alive neighbours handed to the rule
AliveCount(nv) == Cardinality({i \in 1 .. Len(nv) : nv[i][1] = "X"})

\* C2: the rule of Rect8 and Hex6 is Conway's: an alive cell lives iff its
\* score is 2 or 3, a dead cell iff its score is 3.
C2_ConwayRule ==
    (pc = "return" /\ grid_type \in {8, 6}) =>
        (verdict <=> (\/ cell_val = "X" /\ AliveCount(nvals) \in {2, 3}
                      \/ cell_val = "." /\ AliveCount(nvals) = 3))

C2_Witness ==
    /\ pc = "return" /\ grid_type = 6
    /\ cell_val = "." /\ AliveCount(nvals) = 3 /\ verdict

\* the score in tenths: 10 per alive neighbour of weight 1.0, 3 per alive
\* neighbour of weight 0.3
Tenths(nv) ==
    10 * Cardinality({i \in 1 .. Len(nv) : nv[i][1] = "X" /\ PyEq(nv[i][2], PyInt(1))})
    + 3 * Cardinality({i \in 1 .. Len(nv) : nv[i][1] = "X" /\ PyEq(nv[i][2], F0_3)})

\* C3: the rule of Hex12: an alive cell lives iff 2.0 < score < 3.3, a dead
\* cell iff 2.3 < score < 2.9, with the score the number of alive neighbours
\* of weight 1.0 plus 0.3 times the number of alive neighbours of weight 0.3.
C3_Hex12Rule ==
    (pc = "return" /\ grid_type = 12) =>
        (verdict <=> (\/ cell_val = "X" /\ 20 < Tenths(nvals) /\ Tenths(nvals) < 33
                      \/ cell_val = "." /\ 23 < Tenths(nvals) /\ Tenths(nvals) < 29))

InGrid(coordinate) == coordinate[1] \in Range(size) /\ coordinate[2] \in Range(size)
IsCorner(c) == c[1] \in {0, size - 1} /\ c[2] \in {0, size - 1}
IsInterior(c) == c[1] \in 1 .. (size - 2) /\ c[2] \in 1 .. (size - 2)

\* what C4 says of every neighbour returned in a Rect8 grid
Rect8NeighborsOk ==
    /\ Len(ret) <= 8
    /\ \A i \in 1 .. Len(ret) :
          InGrid(ret[i].coordinate) /\ PyEq(ret[i].weight, PyInt(1))

\* C4 as stated: in a Rect8 grid of any size at most 8 neighbours are
\* returned, all inside the grid and of weight 1, and exactly 3 for a corner.
C4_Rect8Neighbors_AnySize ==
    (pc = "return" /\ grid_type = 8) =>
        /\ Rect8NeighborsOk
        /\ IsCorner(cell) => Len(ret) = 3

\* C4, amended: in a Rect8 grid at most 8 neighbours are returned, all inside
\* the grid and of weight 1; a corner of a grid of size 2 or more returns
\* exactly 3, and the only cell of a grid of size 1 returns none.
C4_Rect8Neighbors ==
    (pc = "return" /\ grid_type = 8) =>
        /\ Rect8NeighborsOk
        /\ (IsCorner(cell) /\ size >= 2) => Len(ret) = 3
        /\ size = 1 => Len(ret) = 0

C4_Witness ==
    /\ pc = "return" /\ grid_type = 8
    /\ size = 4 /\ cell = <<3, 0>> /\ Len(ret) = 3

\* C5: in a Hex6 grid at most 6 neighbours are returned, and exactly 6 for an
\* interior cell, in even rows and in odd rows.
C5_Hex6Neighbors ==
    (pc = "return" /\ grid_type = 6) =>
        /\ Len(ret) <= 6
        /\ IsInterior(cell) => Len(ret) = 6

C5_Witness ==
    /\ pc = "return" /\ grid_type = 6
    /\ IsInterior(cell) /\ cell[1] % 2 = 0 /\ Len(ret) = 6

\* the Hex6 neighbours of the cell, which a Hex12 list starts with
Hex6Part == HexGrid6_getNeighbors(size, cell)
IsFarAxial(coordinate) ==
    coordinate \in {<<cell[1] - 2, cell[2]>>, <<cell[1] + 2, cell[2]>>}

\* what C6 says of the length and the start of a Hex12 list
Hex12ListOk ==
    /\ Len(ret) <= 12
    /\ Len(ret) >= Len(Hex6Part)
    /\ Len(ret) - Len(Hex6Part) <= 6
    /\ \A i \in 1 .. Len(Hex6Part) :
          /\ ret[i].coordinate = Hex6Part[i].coordinate
          /\ PyEq(ret[i].weight, PyInt(1))

\* C6 as stated: a Hex12 list is the Hex6 neighbours followed by at most 6
\* more, each of weight 0.3 unless it is at offset (-2,0) or (2,0), where
\* its weight is 1.0.
C6_Hex12Weights_FarAxialOne ==
    (pc = "return" /\ grid_type = 12) =>
        /\ Hex12ListOk
        /\ \A i \in (Len(Hex6Part) + 1) .. Len(ret) :
              IF IsFarAxial(ret[i].coordinate)
              THEN PyEq(ret[i].weight, PyInt(1))
              ELSE PyEq(ret[i].weight, F0_3)

\* C6, amended: a Hex12 list is the Hex6 neighbours (weight 1) followed by at
\* most 6 more, each of weight 0.3, those at offset (-2,0) and (2,0) too.
C6_Hex12Weights ==
    (pc = "return" /\ grid_type = 12) =>
        /\ Hex12ListOk
        /\ \A i \in (Len(Hex6Part) + 1) .. Len(ret) : PyEq(ret[i].weight, F0_3)

C6_Witness ==
    /\ pc = "return" /\ grid_type = 12
    /\ cell = <<2, 2>> /\ size = 5 /\ Len(ret) = 12
    /\ \E i \in 7 .. 12 :
          ret[i].coordinate = <<0, 2>> /\ PyEq(ret[i].weight, F0_3)

\* C7: every neighbour returned in a Hex6 or Hex12 grid is inside the grid.
C7_HexNeighborsInGrid ==
    (pc = "return" /\ grid_type \in {6, 12}) =>
        \A i \in 1 .. Len(ret) : InGrid(ret[i].coordinate)

\* a cell one step from every edge, whose offsets of two steps leave the grid
C7_Witness ==
    /\ pc = "return" /\ grid_type = 12
    /\ size = 3 /\ cell = <<1, 1>> /\ Len(ret) = 8

DotRows5 ==
    <<".", ".", ".", ".", ".", "\n", ".", ".", ".", ".", ".", "\n",
      ".", ".", ".", ".", ".", "\n", ".", ".", ".", ".", ".", "\n",
      ".", ".", ".", ".", ".">>

BuiltDead5 ==
    /\ grid_type = 8
    /\ arg.src = "random" /\ arg.size = 5 /\ arg.prob = 0

\* C8: a grid whose cells are all dead stays all dead after every number of
\* updates, in every topology; a 5x5 Rect8 grid built with probability 0 is
\* all dead and renders as 5 rows of 5 '.' at first and after each generation.
C8_AllDeadIsFixed ==
    pc = "main" =>
        /\ AllDead(initial) => AllDead(cells)
        /\ BuiltDead5 => (AllDead(initial) /\ Grid_repr(size, cells) = DotRows5)

C8_Witness ==
    /\ pc = "main" /\ gen = 3
    /\ BuiltDead5 /\ Grid_repr(size, cells) = DotRows5

IsBlock(cs) ==
    \E r \in Range(size - 1), c \in Range(size - 1) : AliveSet(cs) = BlockAt(r, c)

\* C9: in a Rect8 grid a 2x2 block of alive cells, wherever it is, on an
\* otherwise dead board is the grid after every number of updates.
C9_BlockIsStable ==
    (pc = "main" /\ grid_type = 8 /\ WellFormed(initial) /\ IsBlock(initial)) =>
        cells = initial

C9_Witness ==
    /\ pc = "main" /\ grid_type = 8 /\ gen = MaxGen
    /\ size = 4 /\ AliveSet(initial) = BlockAt(2, 0) /\ cells = initial

\* a line of three with a dead cell between it and every edge
RowBlinkerAt(cs, r, c) ==
    /\ 1 <= r /\ r <= size - 2 /\ 2 <= c /\ c <= size - 3
    /\ AliveSet(cs) = RowOf3At(r, c)
ColBlinkerAt(cs, r, c) ==
    /\ 2 <= r /\ r <= size - 3 /\ 1 <= c /\ c <= size - 2
    /\ AliveSet(cs) = ColOf3At(r, c)

\* C10: in a Rect8 grid a blinker with a margin to every edge has period 2:
\* after an odd number of updates it is the perpendicular line through the
\* same centre, which is not the initial grid, and after an even number it is
\* the initial grid.
C10_BlinkerPeriod2 ==
    (pc = "main" /\ grid_type = 8 /\ WellFormed(initial)) =>
        \A r \in Range(size), c \in Range(size) :
            /\ RowBlinkerAt(initial, r, c) =>
                  IF gen % 2 = 1
                  THEN AliveSet(cells) = ColOf3At(r, c) /\ cells # initial
                  ELSE cells = initial
            /\ ColBlinkerAt(initial, r, c) =>
                  IF gen % 2 = 1
                  THEN AliveSet(cells) = RowOf3At(r, c) /\ cells # initial
                  ELSE cells = initial

C10_Witness ==
    /\ pc = "main" /\ grid_type = 8 /\ gen = 2
    /\ RowBlinkerAt(initial, 1, 2) /\ cells = initial

\* C11: a random construction with prob outside [0, 1] or size <= 0 fails
\* with InvalidConfiguration and produces no grid.
C11_InvalidConfigurationRejected ==
    (/\ pc # "build"
     /\ arg.src = "random"
     /\ (arg.prob < 0 \/ arg.prob > 100 \/ arg.size <= 0))
        => (pc = "InvalidConfiguration" /\ cells = <<>>)

\* the cell value with every symbol other than 'X' read as dead
AsDead(val) == IF val = "X" THEN "X" ELSE "."

\* C12: in a grid loaded from a layout only 'X' is alive: a cell holding any
\* other symbol adds 0 to the score of its neighbours in update(), and the
\* rule treats it as a dead cell.
C12_OnlyXIsAlive ==
    gen = 1 =>
        \A c \in Coordinates(size) :
            (GetItem(cells, c) = "X")
                <=> live(grid_type, AsDead(GetItem(initial, c)),
                         OldScore(initial, c))

\* the rows of a text: what stands between its newlines
RECURSIVE SplitRows(_, _)
SplitRows(text, row) ==
    IF text = <<>> THEN <<row>>
    ELSE IF Head(text) = "\n" THEN <<row>> \o SplitRows(Tail(text), <<>>)
    ELSE SplitRows(Tail(text), Append(row, Head(text)))

Rendered == out[Len(out)]

HexRow(cs, r) ==
    [k \in 1 .. (2 * size - 1 + (r % 2)) |->
        IF (k + (r % 2)) % 2 = 0 THEN " " ELSE cs[r][(k - 1 - (r % 2)) \div 2]]

\* C14: rendering a Hex6 or Hex12 grid gives size rows joined by newlines,
\* row r being the size symbols of row r separated by single spaces, with
\* one more space in front iff r is odd; the text depends on the cell array
\* only and the grid is left as it was.
C14_HexRendering ==
    (pc = "return" /\ grid_type \in {6, 12}) =>
        /\ SplitRows(Rendered, <<>>) = [r \in 1 .. size |-> HexRow(initial, r - 1)]
        /\ cells = initial
        /\ size = SizeOf(arg, initial)

\* a rendered hex grid with an odd row
C14_Witness ==
    /\ pc = "return" /\ grid_type = 12
    /\ size = 2
    /\ Rendered = <<"X", " ", ".", "\n", " ", ".", " ", "X">>

\* in plain mode after gen generations: the initial grid first, then the
\* label of each generation k, followed by the grid iff gen_print divides k
PlainOutputOk ==
    /\ Len(out) = 1 + gen + (gen \div opts.gen_print)
    /\ out[1] = repr(grid_type, size, initial)
    /\ \A k \in 1 .. gen :
           out[k + 1 + ((k - 1) \div opts.gen_print)] = PlainLabel(k)
    /\ (gen > 0 /\ gen % opts.gen_print = 0)
           => out[Len(out)] = repr(grid_type, size, cells)

\* C15: a run of main with -g g calls update() exactly g times in both
\* output modes; in plain mode it prints the initial grid before the first
\* update() and the grid after generation k exactly when k is a multiple
\* of -p.
C15_DriverUpdatesAndPrints ==
    /\ pc = "done" => gen = opts.gens
    /\ (~opts.ncurses /\ pc \in {"loop", "done"}) => PlainOutputOk

\* what holds of the plain mode alone
PlainModeAsClaimed ==
    ~opts.ncurses =>
        /\ pc = "done" => gen = opts.gens
        /\ pc \in {"loop", "done"} => PlainOutputOk

\* a cell array of sz rows of sz cells, each 'X' or '.'
ShapeOk(sz, cs) ==
    /\ DOMAIN cs = Range(sz)
    /\ \A r \in Range(sz) :
           /\ DOMAIN cs[r] = Range(sz)
           /\ \A c \in Range(sz) : cs[r][c] \in {"X", "."}

\* C16: an update() of a well-formed size x size grid leaves the size as it
\* was and a cell array of size rows of size cells, each 'X' or '.'; it
\* assigns the cell array and nothing else.
C16_ShapeAndAlphabet ==
    [][(gen' = gen + 1 /\ ShapeOk(size, cells)) =>
          /\ size' = size
          /\ ShapeOk(size', cells')
          /\ UNCHANGED <<grid_type, arg, initial, sum_impl, opts, out>>]_vars

\* a grid of the largest size after the last update of a run, changed
\* and with cells of both kinds
C16_Witness ==
    /\ pc = "main"
    /\ gen = MaxGen
    /\ size = MaxSize
    /\ cells # initial
    /\ ShapeOk(size, cells)
    /\ {GetItem(cells, c) : c \in Coordinates(size)} = {"X", "."}

\* the cell is in the list with the weight w
Returns(list, coordinate, w) ==
    \E j \in 1 .. Len(list) :
        list[j].coordinate = coordinate /\ PyEq(list[j].weight, w)

\* C17: in the three topologies, a cell q that getNeighbors(p) returns with
\* weight w returns p with weight w from getNeighbors(q), for every size and
\* every p; no cell is its own neighbour and none is returned twice.
C17_NeighborsSymmetric ==
    pc = "return" =>
        /\ \A i \in 1 .. Len(ret) :
               /\ Returns(getNeighbors(grid_type, size, ret[i].coordinate),
                          cell, ret[i].weight)
               /\ ret[i].coordinate # cell
        /\ \A i, j \in 1 .. Len(ret) :
               i # j => ret[i].coordinate # ret[j].coordinate

\* a Hex12 cell of an odd row with neighbours of both weights in even rows
C17_Witness ==
    /\ pc = "return" /\ grid_type = 12
    /\ cell = <<1, 1>> /\ size >= 4
    /\ Returns(ret, <<0, 2>>, PyInt(1))
    /\ Returns(ret, <<2, 3>>, F0_3)
    /\ Returns(ret, <<3, 1>>, F0_3)

====
